---------------------------- MODULE Spec2Model ----------------------------
(***************************************************************************)
(* A model of the sitar/tabla separation tool:                             *)
(*   src/sitar_tabla_separator.py  the Streamlit app (one script run)      *)
(*   src/sep.py                    the stand-alone HPSS + EQ script        *)
(* A waveform is a sequence of samples; a sample is finite (-1, 0, 1) or   *)
(* one of NaN, +Infinity, -Infinity.  Library routines whose numerics are  *)
(* not modelled bit for bit (librosa.effects.hpss, scipy lfilter, the      *)
(* external demucs engine) are nondeterministic over the shapes of result  *)
(* they can give.                                                          *)
(***************************************************************************)
EXTENDS Integers, Sequences, FiniteSets, TLC

\* ------------------------------------------------------------------ bounds
\* Most samples of an input recording.
MaxLen == 2
\* Most stem files the external engine writes in one run.
MaxStems == 2
\* Most signals handed to build_pdf when it is called directly.
MaxSignals == 2

\* ----------------------------------------------------------------- samples
Fin(v) == [k |-> "fin", v |-> v]
NaN == [k |-> "nan", v |-> 0]
PosInf == [k |-> "inf", v |-> 1]
NegInf == [k |-> "inf", v |-> -1]
Zero == Fin(0)
FiniteSamples == {Fin(v) : v \in {-1, 0, 1}}
NonFinite == {NaN, PosInf, NegInf}
IsFinite(s) == s.k = "fin"
AllFinite(w) == \A i \in 1..Len(w) : IsFinite(w[i])
Abs(n) == IF n < 0 THEN -n ELSE n

\* Recordings a file can decode to: finite samples, length 0..MaxLen.
Waveforms == UNION {[1..l -> FiniteSamples] : l \in 0..MaxLen}
SampleRates == {8000, 44100}
\* Channel counts of a recording: mono or stereo.
Channels == {1, 2}

\* ------------------------------------------------------------ UI constants
HPSS == "HPSS (Analytical, Fast)"
HPSS_EQ == "HPSS + EQ Filtering (Enhanced)"
DEMUCS == "Demucs (AI, High Quality)"
Methods == {HPSS, HPSS_EQ, DEMUCS}

\* st.number_input(min_value=10, max_value=20000): the cutoffs the controls give.
NotchMin == 10
NotchMax == 20000
NotchDefaultHigh == 4000
CutoffInputs == {NotchMin, NotchDefaultHigh, NotchMax}

\* ------------------------------------------------------------- the library
\* librosa.load(path, sr=None, mono=True): the file's own rate and one channel,
\* the mean of the file's channels (a file's audio is kept as that mean).
load(file) == [audio |-> file.audio, sr |-> file.sr, channels |-> 1]

\* librosa.effects.hpss(y): two parts of y's length whose masks sum to one.  The
\* mask of a sample is modelled as hard: the sample goes to one part whole.
hpss(y) ==
    {[harmonic |-> [i \in 1..Len(y) |-> IF i \in H THEN y[i] ELSE Zero],
      percussive |-> [i \in 1..Len(y) |-> IF i \in H THEN Zero ELSE y[i]]] :
        H \in {S \in SUBSET (1..Len(y)) : \A i \in (1..Len(y)) \ S : y[i] # Zero}}

\* Whether librosa.effects.hpss(y) raises.  Neither program checks y before the
\* call.  For a zero-length y the outcome is the library's: stft pads the signal,
\* and np.pad raises ValueError on an empty axis with pad_mode="reflect" (the
\* default up to librosa 0.9) and pads with zeros with pad_mode="constant" (the
\* default since 0.10), after which two zero-length parts come back.
hpss_raises(y) == IF Len(y) = 0 THEN BOOLEAN ELSE {FALSE}

\* butter(order, [low, high], btype="bandstop") raises ValueError unless
\* 0 < low < high < 1 (scipy's iirfilter: "filter critical frequencies must be
\* greater than 0", "Wn[0] must be less than Wn[1]", "Digital filter critical
\* frequencies must be 0 < Wn < 1"); low = lowcut / nyq, high = highcut / nyq,
\* nyq = 0.5 * fs, compared here as 2 * cutoff against fs.  The code has no
\* range check of its own.
WnAccepted_Unordered(lowcut, highcut, fs) ==
    /\ 0 < 2 * lowcut
    /\ 2 * highcut < fs

WnAccepted(lowcut, highcut, fs) ==
    /\ 0 < 2 * lowcut
    /\ 2 * lowcut < 2 * highcut
    /\ 2 * highcut < fs

butter_bandstop(lowcut, highcut, fs) ==
    IF WnAccepted(lowcut, highcut, fs)
    THEN [ok |-> TRUE, low |-> <<2 * lowcut, fs>>, high |-> <<2 * highcut, fs>>]
    ELSE [ok |-> FALSE, low |-> <<2 * lowcut, fs>>, high |-> <<2 * highcut, fs>>]

\* lfilter(b, a, data): one causal pass, same length as data.  The band either
\* passes or removes the content (gain 1 or 0); an order-4 band-stop in (b, a)
\* form can lose stability, after which every sample is non-finite.
lfilter(data) ==
    {[i \in 1..Len(data) |->
        IF i >= onset THEN bad
        ELSE IF gain = 1 THEN data[i] ELSE Zero] :
        onset \in 1..(Len(data) + 1), bad \in NonFinite, gain \in {0, 1}}

\* apply_eq: the design error propagates; otherwise lfilter's output, unsanitized.
apply_eq(data, lowcut, highcut, fs) ==
    IF butter_bandstop(lowcut, highcut, fs).ok
    THEN {[ok |-> TRUE, out |-> o] : o \in lfilter(data)}
    ELSE {[ok |-> FALSE, out |-> <<>>]}

\* A sanitization that drops the non-finite samples instead of replacing them.
nan_to_num_Dropping(w) == SelectSeq(w, IsFinite)

\* np.nan_to_num(x, nan=0.0, posinf=0.0, neginf=0.0) and flatten().
nan_to_num(w) == [i \in 1..Len(w) |-> IF IsFinite(w[i]) THEN w[i] ELSE Zero]

\* ------------------------------------------------------------ signal_stats
RECURSIVE SumSq(_)
SumSq(w) == IF w = <<>> THEN 0 ELSE w[1].v * w[1].v + SumSq(Tail(w))

RECURSIVE Peak(_)
Peak(w) ==
    IF w = <<>> THEN 0
    ELSE LET r == Peak(Tail(w)) IN IF Abs(w[1].v) > r THEN Abs(w[1].v) ELSE r

signal_stats_nan(audio, sr) ==
    IF Len(audio) = 0
    THEN [ok |-> TRUE, data |-> <<0, sr, 0, 0, 0>>]
    ELSE [ok |-> TRUE, data |-> <<Len(audio), sr, SumSq(audio), Len(audio), Peak(audio)>>]

\* duration = len / sr (kept as the pair), rms = sqrt(mean(x^2)) (kept as the sum
\* of squares over the length), peak = max |x|.  np.max of an empty array raises
\* ValueError, so no triple is returned for a zero-length signal.
signal_stats(audio, sr) ==
    IF Len(audio) = 0
    THEN [ok |-> FALSE, data |-> <<>>]
    ELSE [ok |-> TRUE, data |-> <<Len(audio), sr, SumSq(audio), Len(audio), Peak(audio)>>]

\* plot_waveform / plot_fft / plot_spectrogram draw a non-empty finite signal;
\* np.fft.rfft of zero points raises ValueError.
PlotOK(audio) == Len(audio) > 0 /\ AllFinite(audio)

\* --------------------------------------------------------- report elements
El(kind, sig, text, data) == [kind |-> kind, sig |-> sig, text |-> text, data |-> data]
Spacer == El("Spacer", 0, "", <<>>)
HR == El("HRFlowable", 0, "", <<>>)
NoParams == [given |-> FALSE, low |-> 0, high |-> 0]
Params(low, high) == [given |-> TRUE, low |-> low, high |-> high]

\* build_pdf, lines 229-285: title block, method note, EQ table if notch_params.
PdfFront(a) ==
    <<El("Title", 0, "Sitar-Tabla Separation Report", <<>>),
      El("Subtitle", 0, a.method_label, <<>>),
      HR,
      El("SectionHead", 0, "Method Summary", <<>>),
      El("MethodNote", 0, a.method_note.text, a.method_note.data)>>
    \o (IF a.notch_params.given
        THEN <<El("SectionHead", 0, "EQ Filter Parameters", <<>>),
               El("EQTable", 0, "", <<a.notch_params.low, a.notch_params.high>>),
               Spacer>>
        ELSE <<>>)
    \o <<El("SectionHead", 0, "Signal Analysis", <<>>)>>

PdfSection_Swapped(i, sig, stats) ==
    <<El("SignalHead", i, sig.label, <<>>),
      El("StatsTable", i, "", stats.data),
      Spacer,
      El("Image", i, "Frequency Spectrum", <<>>),
      Spacer,
      El("Image", i, "Waveform", <<>>),
      Spacer,
      El("Image", i, "Spectrogram", <<>>),
      Spacer,
      HR>>

\* build_pdf, lines 292-359: one signal's subsection, given its statistics.
PdfSection(i, sig, stats) ==
    <<El("SignalHead", i, sig.label, <<>>),
      El("StatsTable", i, "", stats.data),
      Spacer,
      El("Image", i, "Waveform", <<>>),
      Spacer,
      El("Image", i, "Frequency Spectrum", <<>>),
      Spacer,
      El("Image", i, "Spectrogram", <<>>),
      Spacer,
      HR>>

\* build_pdf, lines 361-374.
PdfFooterBlock ==
    <<Spacer, HR, El("Footer", 0, "Generated by Sitar-Tabla Separator Tool", <<>>)>>

Sig(label, audio, sr) == [label |-> label, audio |-> audio, sr |-> sr]
Note(text, data) == [text |-> text, data |-> data]
NoArgs ==
    [filename |-> "", method_label |-> "", signals |-> <<>>,
     method_note |-> Note("", <<>>), notch_params |-> NoParams]
NoError == [type |-> "none", at |-> "none"]
Err(type, at) == [type |-> type, at |-> at]


\* ------------------------------------------------------- the external engine
\* What demucs -n htdemucs_ft -o out_dir audio_path does is the engine's own
\* business: it may be absent, exit nonzero, and leave its stems nested
\* (out/model/track/stem.wav, its documented layout), directly under the model
\* directory, or nowhere.
ModelName == "htdemucs_ft"
TrackName == "input"
StemFiles == {"drums.wav", "other.wav", "vocals.wav"}
StemSets == {S \in SUBSET StemFiles : S # {} /\ Cardinality(S) <= MaxStems}
NoEngine == [present |-> FALSE, exit |-> 0, layout |-> "none", stems |-> {}]
Engines ==
    {NoEngine}
    \cup {[present |-> TRUE, exit |-> e, layout |-> l, stems |-> S] :
            e \in {0, 1}, l \in {"flat", "nested"}, S \in StemSets}
    \cup {[present |-> TRUE, exit |-> 1, layout |-> "none", stems |-> {}]}

EngineTree(e) ==
    CASE e.layout = "nested" ->
            {<<ModelName>>, <<ModelName, TrackName>>}
            \cup {<<ModelName, TrackName, f>> : f \in e.stems}
      [] e.layout = "flat" -> {<<ModelName>>} \cup {<<ModelName, f>> : f \in e.stems}
      [] OTHER -> {}

\* Path.stem and str.capitalize of the stem files' names.
FileStem(name) ==
    CASE name = "drums.wav" -> "drums"
      [] name = "other.wav" -> "other"
      [] name = "vocals.wav" -> "vocals"
      [] OTHER -> name
capitalize(s) ==
    CASE s = "drums" -> "Drums"
      [] s = "other" -> "Other"
      [] s = "vocals" -> "Vocals"
      [] OTHER -> s
IsWav(name) == name \in StemFiles

\* Path.glob("**/*") lists the directory's own entries before it descends: its
\* first result is one of the top-level entries.
FirstOfGlobAll(t) == {p \in t : Len(p) = 1}
\* dir.glob("*.wav"): the .wav entries directly inside dir.
GlobWav(t, dir) ==
    {p \in t : /\ Len(p) = Len(dir) + 1
               /\ SubSeq(p, 1, Len(dir)) = dir
               /\ IsWav(p[Len(p)])}

\* ------------------------------------------------------------------- state
VARIABLES
    prog,            \* "app" | "script" | "pdf" (build_pdf called on its own)
    pc,              \* the position in the running program
    input_file,      \* the upload (app) or the recording sep.py reads
    method, notch_low, notch_high, pressed,   \* the controls of this run
    engine,          \* what the external engine will do when invoked
    tmpdir,          \* whether the TemporaryDirectory exists
    files,           \* files written by the program: name -> [audio, sr]
    written,         \* every sf.write so far, in order
    tree,            \* the contents of demucs_out
    y_orig, sr_orig, y, harmonic, percussive, harmonic_eq, sr,
    y_channels,      \* the channels of y, the array handed to the decomposition
    stem_dir, stems_todo, signals_for_pdf,
    shown,           \* labels passed to show_signal_visualizations / plotted
    messages,        \* st.success / st.error texts
    offered,         \* files behind a st.download_button
    error,           \* the exception raised last, if any
    pdf_args, story, sig_i, pdf_bytes,        \* build_pdf's frame and result
    steps,           \* the processing calls made so far, in order
    hpss_out,        \* what the decomposition returned
    filtered         \* every apply_eq call: which stem, with which cutoffs

vars ==
    <<prog, pc, input_file, method, notch_low, notch_high, pressed, engine,
      tmpdir, files, written, tree, y_orig, sr_orig, y, harmonic, percussive,
      harmonic_eq, sr, stem_dir, stems_todo, signals_for_pdf, shown, messages,
      offered, error, pdf_args, story, sig_i, pdf_bytes, steps, hpss_out,
      filtered, y_channels>>

inputs == <<prog, input_file, method, notch_low, notch_high, pressed, engine>>
disk == <<tmpdir, files, written, tree>>
arrays == <<y_orig, sr_orig, y, harmonic, percussive, harmonic_eq, sr, hpss_out,
           y_channels>>
demucs == <<stem_dir, stems_todo>>
screen == <<shown, messages, offered>>
pdf == <<pdf_args, story, sig_i, pdf_bytes>>

NoFile == [given |-> FALSE, name |-> "", audio |-> <<>>, sr |-> 0, channels |-> 0]
File(name, audio, rate, ch) ==
    [given |-> TRUE, name |-> name, audio |-> audio, sr |-> rate, channels |-> ch]
NoFiles == [n \in {} |-> NoFile]
NoHpss == [harmonic |-> <<>>, percussive |-> <<>>]

\* Signals for a direct call of build_pdf: all-ones audio of length 0..MaxLen.
DirectSignals ==
    {Sig(l, [i \in 1..n |-> Fin(1)], 44100) : l \in {"Original Mix", "Stem"}, n \in 0..MaxLen}
DirectCalls ==
    {[filename |-> "input.wav", method_label |-> m, signals |-> ss,
      method_note |-> Note(m, <<>>), notch_params |-> np] :
        m \in Methods,
        ss \in UNION {[1..n -> DirectSignals] : n \in 0..MaxSignals},
        np \in {NoParams, Params(NotchMin, NotchDefaultHigh)}}

InitRest ==
    /\ tmpdir = FALSE /\ files = NoFiles /\ written = <<>> /\ tree = {}
    /\ y_orig = <<>> /\ sr_orig = 0 /\ y = <<>> /\ harmonic = <<>>
    /\ percussive = <<>> /\ harmonic_eq = <<>> /\ sr = 0
    /\ stem_dir = <<>> /\ stems_todo = {} /\ signals_for_pdf = <<>>
    /\ shown = <<>> /\ messages = <<>> /\ offered = <<>> /\ error = NoError
    /\ story = <<>> /\ sig_i = 0 /\ pdf_bytes = <<>>
    /\ steps = <<>> /\ hpss_out = NoHpss /\ filtered = <<>> /\ y_channels = 0

\* One run of the app: the upload and the controls are this run's inputs.  The
\* cutoff controls exist only for the EQ method, the engine matters only for Demucs.
InitApp ==
    /\ prog = "app" /\ pc = "start"
    /\ input_file \in {NoFile} \cup {File("input.wav", a, r, c) : a \in Waveforms, r \in SampleRates, c \in Channels}
    /\ method \in Methods
    /\ notch_low \in (IF method = HPSS_EQ THEN CutoffInputs ELSE {0})
    /\ notch_high \in (IF method = HPSS_EQ THEN CutoffInputs ELSE {0})
    /\ pressed \in BOOLEAN
    /\ engine \in (IF method = DEMUCS THEN Engines ELSE {NoEngine})
    /\ pdf_args = NoArgs

\* sep.py: the recording at its hard-coded path.
InitScript ==
    /\ prog = "script" /\ pc = "s_load"
    /\ input_file \in
        {File("other.wav", a, r, c) : a \in Waveforms, r \in SampleRates, c \in Channels}
    /\ method = HPSS_EQ /\ notch_low = 0 /\ notch_high = 0 /\ pressed = FALSE
    /\ engine = NoEngine
    /\ pdf_args = NoArgs

\* build_pdf called with arguments of the caller's choosing.
InitPdf ==
    /\ prog = "pdf" /\ pc = "pdf_front"
    /\ input_file = NoFile /\ method = HPSS /\ notch_low = 0 /\ notch_high = 0
    /\ pressed = FALSE /\ engine = NoEngine
    /\ pdf_args \in DirectCalls

Init == (InitApp \/ InitScript \/ InitPdf) /\ InitRest

\* ---------------------------------------------------------------- helpers
\* show_signal_visualizations(audio, sr, label): three plots, or the plot's error.
Raise(e) == error' = e /\ pc' = (IF prog = "app" THEN "raise" ELSE "done")

\* sf.write(path, data, sr), for each of ws in order.
W(name, audio, rate) == [name |-> name, audio |-> audio, sr |-> rate]
RECURSIVE PutAll(_, _)
PutAll(fs, ws) ==
    IF ws = <<>> THEN fs
    ELSE PutAll((ws[1].name :> [audio |-> ws[1].audio, sr |-> ws[1].sr, channels |-> 1]) @@ fs,
                Tail(ws))
sf_write(ws) == files' = PutAll(files, ws) /\ written' = written \o ws

\* ------------------------------------------------- the app: lines 418-430
\* if uploaded: is false: the script runs to its footer.
NoUpload ==
    /\ prog = "app" /\ pc = "start" /\ ~input_file.given
    /\ pc' = "done"
    /\ UNCHANGED <<inputs, disk, arrays, demucs, signals_for_pdf, screen, error, pdf,
                   steps, filtered>>

\* Lines 419-424: the temporary directory and the upload written into it.
SaveUpload ==
    /\ prog = "app" /\ pc = "start" /\ input_file.given
    /\ tmpdir' = TRUE
    /\ files' = (input_file.name :> [audio |-> input_file.audio, sr |-> input_file.sr,
                                       channels |-> input_file.channels])
    /\ pc' = "load"
    /\ UNCHANGED <<inputs, written, tree, arrays, demucs, signals_for_pdf, screen, error,
                   pdf, steps, filtered>>

\* Lines 427-428: the original mix is loaded and visualized on every run.
LoadOriginal ==
    /\ prog = "app" /\ pc = "load"
    /\ LET l == load(files[input_file.name]) IN
        /\ y_orig' = l.audio /\ sr_orig' = l.sr
        /\ IF PlotOK(l.audio)
           THEN /\ shown' = Append(shown, "Original Mix")
                /\ pc' = "button"
                /\ error' = error
           ELSE /\ Raise(Err("ValueError", "show_signal_visualizations"))
                /\ shown' = shown
    /\ UNCHANGED <<inputs, disk, y, harmonic, percussive, harmonic_eq, sr, hpss_out, y_channels,
                   demucs, signals_for_pdf, messages, offered, pdf, steps, filtered>>

\* Line 430: st.button, and the branch on the method at 434 / 492 / 577.
Button ==
    /\ prog = "app" /\ pc = "button"
    /\ pc' = IF ~pressed THEN "exit"
             ELSE IF method = HPSS THEN "hpss"
             ELSE IF method = HPSS_EQ THEN "eq_decompose"
             ELSE "demucs_run"
    /\ UNCHANGED <<inputs, disk, arrays, demucs, signals_for_pdf, screen, error, pdf,
                   steps, filtered>>

\* A block that removes the directory on its normal exit only.
LeaveTmpdir_NormalExitOnly ==
    /\ prog = "app" /\ pc \in {"exit", "raise"}
    /\ IF pc = "exit"
       THEN tmpdir' = FALSE /\ files' = NoFiles /\ tree' = {}
       ELSE UNCHANGED <<tmpdir, files, tree>>
    /\ pc' = "done"
    /\ UNCHANGED <<inputs, written, arrays, demucs, signals_for_pdf, screen, error, pdf,
                   steps, filtered>>

\* The with tempfile.TemporaryDirectory() block is left (normally, by an
\* exception or by st.stop()): the directory and all in it are removed.
LeaveTmpdir ==
    /\ prog = "app" /\ pc \in {"exit", "raise"}
    /\ tmpdir' = FALSE /\ files' = NoFiles /\ tree' = {}
    /\ pc' = "done"
    /\ UNCHANGED <<inputs, written, arrays, demucs, signals_for_pdf, screen, error, pdf,
                   steps, filtered>>

\* ------------------------------------------------ HPSS only: lines 434-483
\* run_hpss(audio_path), lines 48-51.
run_hpss ==
    /\ prog = "app" /\ pc = "hpss"
    /\ LET l == load(files[input_file.name]) IN
        /\ y' = l.audio /\ sr' = l.sr /\ y_channels' = l.channels
        /\ \E raises \in hpss_raises(l.audio) :
            IF raises
            THEN /\ Raise(Err("ValueError", "hpss"))
                 /\ UNCHANGED <<harmonic, percussive, hpss_out>>
            ELSE \E r \in hpss(l.audio) :
                 /\ harmonic' = r.harmonic /\ percussive' = r.percussive
                 /\ hpss_out' = r
                 /\ pc' = "hpss_outputs"
                 /\ error' = error
    /\ steps' = steps \o <<"load", "hpss">>
    /\ UNCHANGED <<inputs, disk, y_orig, sr_orig, harmonic_eq, demucs, signals_for_pdf,
                   screen, pdf, filtered>>

HpssSignals_Reordered ==
    <<Sig("Sitar - Harmonic", harmonic, sr),
      Sig("Original Mix", y_orig, sr_orig),
      Sig("Tabla - Percussive", percussive, sr)>>

HpssSignals ==
    <<Sig("Original Mix", y_orig, sr_orig),
      Sig("Sitar - Harmonic", harmonic, sr),
      Sig("Tabla - Percussive", percussive, sr)>>

HpssPdfArgs ==
    [filename |-> input_file.name, method_label |-> HPSS, signals |-> HpssSignals,
     method_note |-> Note("HPSS", <<>>), notch_params |-> NoParams]

\* Lines 437-483: the two stems written, played, offered and visualized, the
\* signal list made, build_pdf called.
HpssOutputs ==
    /\ prog = "app" /\ pc = "hpss_outputs"
    /\ sf_write(<<W("sitar_like.wav", harmonic, sr), W("tabla_like.wav", percussive, sr)>>)
    /\ messages' = Append(messages, "Separation complete (HPSS)")
    /\ offered' = offered \o <<"sitar_like.wav", "tabla_like.wav">>
    /\ IF PlotOK(harmonic) /\ PlotOK(percussive)
       THEN /\ shown' = shown \o <<"Sitar - Harmonic", "Tabla - Percussive">>
            /\ signals_for_pdf' = HpssSignals
            /\ pdf_args' = HpssPdfArgs
            /\ pc' = "pdf_front"
            /\ error' = error
       ELSE /\ Raise(Err("ValueError", "show_signal_visualizations"))
            /\ UNCHANGED <<shown, signals_for_pdf, pdf_args>>
    /\ UNCHANGED <<inputs, tmpdir, tree, arrays, demucs, story, sig_i, pdf_bytes, steps,
                   filtered>>

\* ------------------------------------------- HPSS + EQ: lines 492-568
\* apply_hpss_with_eq, lines 68-69: load and decompose.
ApplyHpssWithEq_Decompose ==
    /\ prog = "app" /\ pc = "eq_decompose"
    /\ LET l == load(files[input_file.name]) IN
        /\ y' = l.audio /\ sr' = l.sr /\ y_channels' = l.channels
        /\ \E raises \in hpss_raises(l.audio) :
            IF raises
            THEN /\ Raise(Err("ValueError", "hpss"))
                 /\ UNCHANGED <<harmonic, percussive, hpss_out>>
            ELSE \E r \in hpss(l.audio) :
                 /\ harmonic' = r.harmonic /\ percussive' = r.percussive
                 /\ hpss_out' = r
                 /\ pc' = "eq_filter"
                 /\ error' = error
    /\ steps' = steps \o <<"load", "hpss">>
    /\ UNCHANGED <<inputs, disk, y_orig, sr_orig, harmonic_eq, demucs, signals_for_pdf,
                   screen, pdf, filtered>>

FilterInput_Percussive == percussive

\* The array handed to apply_eq at line 70 (and at sep.py line 31).
FilterInput == harmonic

\* apply_hpss_with_eq, line 70: harmonic_eq = apply_eq(harmonic, notch_low, notch_high, sr).
ApplyHpssWithEq_Filter ==
    /\ prog = "app" /\ pc = "eq_filter"
    /\ filtered' = Append(filtered, [input |-> FilterInput,
                                     low |-> notch_low, high |-> notch_high, fs |-> sr])
    /\ \E r \in apply_eq(FilterInput, notch_low, notch_high, sr) :
        IF r.ok
        THEN /\ harmonic_eq' = r.out
             /\ steps' = steps \o <<"butter", "lfilter">>
             /\ pc' = "eq_sanitize"
             /\ error' = error
        ELSE /\ harmonic_eq' = harmonic_eq
             /\ steps' = Append(steps, "butter")
             /\ Raise(Err("ValueError", "butter"))
    /\ UNCHANGED <<inputs, disk, y_orig, sr_orig, y, harmonic, percussive, sr, hpss_out, y_channels,
                   demucs, signals_for_pdf, screen, pdf>>

\* apply_hpss_with_eq, lines 71-73: nan_to_num, flatten, return.
ApplyHpssWithEq_Sanitize ==
    /\ prog = "app" /\ pc = "eq_sanitize"
    /\ harmonic_eq' = nan_to_num(harmonic_eq)
    /\ steps' = Append(steps, "nan_to_num")
    /\ pc' = "eq_outputs"
    /\ UNCHANGED <<inputs, disk, y_orig, sr_orig, y, harmonic, percussive, sr, hpss_out, y_channels,
                   demucs, signals_for_pdf, screen, error, pdf, filtered>>

EqSignals ==
    <<Sig("Original Mix", y_orig, sr_orig),
      Sig("Sitar - Harmonic (raw HPSS)", harmonic, sr),
      Sig("Sitar - Harmonic (EQ cleaned)", harmonic_eq, sr),
      Sig("Tabla - Percussive", percussive, sr)>>

EqWrites ==
    <<W("sitar_harmonic.wav", harmonic, sr),
      W("sitar_harmonic_clean.wav", harmonic_eq, sr),
      W("tabla_percussive.wav", percussive, sr)>>

EqPdfArgs_NoParams ==
    [filename |-> input_file.name, method_label |-> HPSS_EQ, signals |-> EqSignals,
     method_note |-> Note("HPSS+EQ", <<notch_low, notch_high>>),
     notch_params |-> NoParams]

EqPdfArgs ==
    [filename |-> input_file.name, method_label |-> HPSS_EQ, signals |-> EqSignals,
     method_note |-> Note("HPSS+EQ", <<notch_low, notch_high>>),
     notch_params |-> Params(notch_low, notch_high)]

\* Lines 497-568: the three stems written, played, offered and visualized, the
\* signal list made, build_pdf called with notch_params.
EqOutputs ==
    /\ prog = "app" /\ pc = "eq_outputs"
    /\ sf_write(EqWrites)
    /\ messages' = Append(messages, "Separation complete (HPSS + EQ)")
    /\ offered' = offered \o
            <<"sitar_harmonic.wav", "sitar_harmonic_clean.wav", "tabla_percussive.wav">>
    /\ IF PlotOK(harmonic) /\ PlotOK(harmonic_eq) /\ PlotOK(percussive)
       THEN /\ shown' = shown \o <<"Sitar - Harmonic (raw HPSS)",
                                   "Sitar - Harmonic (EQ cleaned)",
                                   "Tabla - Percussive">>
            /\ signals_for_pdf' = EqSignals
            /\ pdf_args' = EqPdfArgs
            /\ pc' = "pdf_front"
            /\ error' = error
       ELSE /\ Raise(Err("ParameterError", "show_signal_visualizations"))
            /\ UNCHANGED <<shown, signals_for_pdf, pdf_args>>
    /\ UNCHANGED <<inputs, tmpdir, tree, arrays, demucs, story, sig_i, pdf_bytes, steps,
                   filtered>>

\* ---------------------------------------------- Demucs: lines 577-630
\* Lines 578-582 and run_demucs (142-144): subprocess.run(cmd, check=True) raises
\* FileNotFoundError when there is no executable and CalledProcessError when it
\* exits nonzero; the engine has by then written what it writes.
run_demucs ==
    /\ prog = "app" /\ pc = "demucs_run"
    /\ steps' = Append(steps, "demucs")
    /\ IF ~engine.present
       THEN /\ tree' = tree
            /\ error' = Err("FileNotFoundError", "run_demucs")
            /\ pc' = "demucs_except"
       ELSE /\ tree' = EngineTree(engine)
            /\ IF engine.exit # 0
               THEN error' = Err("CalledProcessError", "run_demucs") /\ pc' = "demucs_except"
               ELSE error' = error /\ pc' = "demucs_find"
    /\ UNCHANGED <<inputs, tmpdir, files, written, arrays, demucs, signals_for_pdf, screen,
                   pdf, filtered>>

NotFoundMessage == "Demucs not found. Install with: pip install demucs"

DemucsExcept_NoStop ==
    /\ prog = "app" /\ pc = "demucs_except"
    /\ messages' = Append(messages, NotFoundMessage)
    /\ pc' = "demucs_find"
    /\ UNCHANGED <<inputs, disk, arrays, demucs, signals_for_pdf, shown, offered, error,
                   pdf, steps, filtered>>

\* Lines 583-585: except Exception: st.error(...) and st.stop().
DemucsExcept ==
    /\ prog = "app" /\ pc = "demucs_except"
    /\ messages' = Append(messages, NotFoundMessage)
    /\ pc' = "exit"
    /\ UNCHANGED <<inputs, disk, arrays, demucs, signals_for_pdf, shown, offered, error,
                   pdf, steps, filtered>>

\* Lines 587-594: stem_dir = next(demucs_out.glob("**/*"), None), the signal list
\* started with the original mix, the *.wav files of stem_dir to iterate.
DemucsFind ==
    /\ prog = "app" /\ pc = "demucs_find"
    /\ stem_dir' \in (IF FirstOfGlobAll(tree) = {} THEN {<<>>} ELSE FirstOfGlobAll(tree))
    /\ signals_for_pdf' = <<Sig("Original Mix", y_orig, sr_orig)>>
    /\ IF stem_dir' # <<>>
       THEN /\ messages' = Append(messages, "Separation complete (Demucs)")
            /\ stems_todo' = GlobWav(tree, stem_dir')
       ELSE /\ messages' = messages
            /\ stems_todo' = {}
    /\ pc' = "demucs_loop"
    /\ UNCHANGED <<inputs, disk, arrays, shown, offered, error, pdf, steps, filtered>>

\* The audio the engine put in a stem file is the engine's; it is read back with
\* the recording's length and rate.
StemContent(p) == [audio |-> input_file.audio, sr |-> input_file.sr]

\* Lines 595-615: one stem of the loop, in the directory's listing order.
DemucsStem ==
    /\ prog = "app" /\ pc = "demucs_loop"
    /\ \E p \in stems_todo :
        LET name == p[Len(p)]
            label == capitalize(FileStem(name))
            l == load(StemContent(p))
        IN  /\ stems_todo' = stems_todo \ {p}
            /\ offered' = Append(offered, name)
            /\ IF PlotOK(l.audio)
               THEN /\ shown' = Append(shown, label)
                    /\ signals_for_pdf' = Append(signals_for_pdf, Sig(label, l.audio, l.sr))
                    /\ pc' = pc
                    /\ error' = error
               ELSE /\ Raise(Err("ValueError", "show_signal_visualizations"))
                    /\ UNCHANGED <<shown, signals_for_pdf>>
    /\ UNCHANGED <<inputs, disk, arrays, stem_dir, messages, pdf, steps, filtered>>

DemucsPdfArgs ==
    [filename |-> input_file.name, method_label |-> DEMUCS, signals |-> signals_for_pdf,
     method_note |-> Note("Demucs", <<>>), notch_params |-> NoParams]

\* Lines 617-630: the loop is over; build_pdf is called.
DemucsReport ==
    /\ prog = "app" /\ pc = "demucs_loop" /\ stems_todo = {}
    /\ pdf_args' = DemucsPdfArgs
    /\ pc' = "pdf_front"
    /\ UNCHANGED <<inputs, disk, arrays, demucs, signals_for_pdf, screen, error, story,
                   sig_i, pdf_bytes, steps, filtered>>

\* ------------------------------------------------- build_pdf: lines 157-378
\* Lines 229-285.
BuildPdf_Front ==
    /\ pc = "pdf_front"
    /\ story' = PdfFront(pdf_args)
    /\ sig_i' = 1
    /\ pc' = "pdf_signal"
    /\ UNCHANGED <<inputs, disk, arrays, demucs, signals_for_pdf, screen, error, pdf_args,
                   pdf_bytes, steps, filtered>>

\* Lines 287-359: one pass of the loop over signals.  The label is appended, then
\* signal_stats is called; its error leaves build_pdf.
BuildPdf_Signal ==
    /\ pc = "pdf_signal" /\ sig_i <= Len(pdf_args.signals)
    /\ LET sig == pdf_args.signals[sig_i]
           stats == signal_stats(sig.audio, sig.sr)
       IN  IF stats.ok
           THEN /\ story' = story \o PdfSection(sig_i, sig, stats)
                /\ sig_i' = sig_i + 1
                /\ pc' = pc
                /\ error' = error
           ELSE /\ story' = Append(story, El("SignalHead", sig_i, sig.label, <<>>))
                /\ sig_i' = sig_i
                /\ Raise(Err("ValueError", "signal_stats"))
    /\ UNCHANGED <<inputs, disk, arrays, demucs, signals_for_pdf, screen, pdf_args,
                   pdf_bytes, steps, filtered>>

\* Lines 361-378: the footer, doc.build(story), the bytes returned.
BuildPdf_Footer ==
    /\ pc = "pdf_signal" /\ sig_i > Len(pdf_args.signals)
    /\ story' = story \o PdfFooterBlock
    /\ pdf_bytes' = story'
    /\ pc' = (IF prog = "app" THEN "download" ELSE "done")
    /\ UNCHANGED <<inputs, disk, arrays, demucs, signals_for_pdf, screen, error, pdf_args,
                   sig_i, steps, filtered>>

\* Lines 484-489 / 569-574 / 631-636: the report offered for download.
DownloadReport ==
    /\ prog = "app" /\ pc = "download"
    /\ offered' = Append(offered, "separation_report.pdf")
    /\ pc' = "exit"
    /\ UNCHANGED <<inputs, disk, arrays, demucs, signals_for_pdf, shown, messages, error,
                   pdf, steps, filtered>>

\* --------------------------------------------------------------- sep.py
ScriptLow == 10
ScriptHigh == 4000

\* Lines 8-15: load, decompose, write harmonic.wav and percussive.wav.
ScriptDecompose ==
    /\ prog = "script" /\ pc = "s_load"
    /\ LET l == load(input_file) IN
        /\ y' = l.audio /\ sr' = l.sr /\ y_channels' = l.channels
        /\ \E raises \in hpss_raises(l.audio) :
            IF raises
            THEN /\ Raise(Err("ValueError", "hpss"))
                 /\ UNCHANGED <<harmonic, percussive, hpss_out, files, written>>
            ELSE \E r \in hpss(l.audio) :
                 /\ harmonic' = r.harmonic /\ percussive' = r.percussive
                 /\ hpss_out' = r
                 /\ sf_write(<<W("harmonic.wav", r.harmonic, l.sr),
                               W("percussive.wav", r.percussive, l.sr)>>)
                 /\ pc' = "s_eq"
                 /\ error' = error
    /\ steps' = steps \o <<"load", "hpss">>
    /\ UNCHANGED <<inputs, tmpdir, tree, y_orig, sr_orig, harmonic_eq, demucs,
                   signals_for_pdf, screen, pdf, filtered>>

\* Line 31: harmonic_eq = apply_eq(harmonic, 10, 4000, sr).
ScriptApplyEq ==
    /\ prog = "script" /\ pc = "s_eq"
    /\ filtered' = Append(filtered, [input |-> FilterInput,
                                     low |-> ScriptLow, high |-> ScriptHigh, fs |-> sr])
    /\ \E r \in apply_eq(FilterInput, ScriptLow, ScriptHigh, sr) :
        IF r.ok
        THEN /\ harmonic_eq' = r.out
             /\ steps' = steps \o <<"butter", "lfilter">>
             /\ pc' = "s_write_clean"
             /\ error' = error
        ELSE /\ harmonic_eq' = harmonic_eq
             /\ steps' = Append(steps, "butter")
             /\ Raise(Err("ValueError", "butter"))
    /\ UNCHANGED <<inputs, disk, y_orig, sr_orig, y, harmonic, percussive, sr, hpss_out, y_channels,
                   demucs, signals_for_pdf, screen, pdf>>

\* Line 34: sf.write("harmonic_clean.wav", harmonic_eq, sr), as lfilter returned it.
ScriptWriteClean ==
    /\ prog = "script" /\ pc = "s_write_clean"
    /\ sf_write(<<W("harmonic_clean.wav", harmonic_eq, sr)>>)
    /\ pc' = "s_sanitize"
    /\ UNCHANGED <<inputs, tmpdir, tree, arrays, demucs, signals_for_pdf, screen, error,
                   pdf, steps, filtered>>

\* Lines 39-42: nan_to_num and flatten, before the plots.
ScriptSanitize ==
    /\ prog = "script" /\ pc = "s_sanitize"
    /\ harmonic_eq' = nan_to_num(harmonic_eq)
    /\ steps' = Append(steps, "nan_to_num")
    /\ pc' = "s_plots"
    /\ UNCHANGED <<inputs, disk, y_orig, sr_orig, y, harmonic, percussive, sr, hpss_out, y_channels,
                   demucs, signals_for_pdf, screen, error, pdf, filtered>>

\* Lines 45-75: waveform, spectrum and spectrogram of the cleaned stem.
ScriptPlots ==
    /\ prog = "script" /\ pc = "s_plots"
    /\ IF PlotOK(harmonic_eq)
       THEN shown' = Append(shown, "Cleaned Harmonic Stem") /\ pc' = "done" /\ error' = error
       ELSE shown' = shown /\ Raise(Err("ParameterError", "waveshow"))
    /\ UNCHANGED <<inputs, disk, arrays, demucs, signals_for_pdf, messages, offered, pdf,
                   steps, filtered>>

\* ------------------------------------------------------------ specification
Next ==
    \/ NoUpload
    \/ SaveUpload
    \/ LoadOriginal
    \/ Button
    \/ LeaveTmpdir
    \/ run_hpss
    \/ HpssOutputs
    \/ ApplyHpssWithEq_Decompose
    \/ ApplyHpssWithEq_Filter
    \/ ApplyHpssWithEq_Sanitize
    \/ EqOutputs
    \/ run_demucs
    \/ DemucsExcept
    \/ DemucsFind
    \/ DemucsStem
    \/ DemucsReport
    \/ BuildPdf_Front
    \/ BuildPdf_Signal
    \/ BuildPdf_Footer
    \/ DownloadReport
    \/ ScriptDecompose
    \/ ScriptApplyEq
    \/ ScriptWriteClean
    \/ ScriptSanitize
    \/ ScriptPlots

Spec == Init /\ [][Next]_vars

\* ------------------------------------------------------------------ claims
Range(q) == {q[i] : i \in DOMAIN q}

\* A run of the app in which Separate could be and was pressed.
Separating == prog = "app" /\ input_file.given /\ Len(input_file.audio) > 0 /\ pressed

\* The cutoffs are not a valid band for a recording sampled at rate.
InvalidRange(low, high, rate) == low >= high \/ low <= 0 \/ 2 * high >= rate

\* C1: an HPSS+Filter run whose cutoffs have low >= high, low <= 0 or
\* high >= sr/2 writes no stem file and builds no report, at any point of the run,
\* and ends with the filter design's range error (ValueError raised by butter);
\* that error is raised for such cutoffs only.
C1_InvalidRangeNoOutput ==
    /\ (prog = "app" /\ method = HPSS_EQ
            /\ InvalidRange(notch_low, notch_high, input_file.sr))
        => /\ written = <<>> /\ offered = <<>>
           /\ pdf_args = NoArgs /\ story = <<>> /\ pdf_bytes = <<>>
           /\ (Separating /\ pc = "done" => error = Err("ValueError", "butter"))
    /\ (prog = "app" /\ error.at = "butter")
        => InvalidRange(notch_low, notch_high, input_file.sr)

\* C1 witness: a finished run with inverted cutoffs, both below Nyquist.
C1_Witness ==
    /\ Separating /\ method = HPSS_EQ /\ pc = "done"
    /\ notch_low >= notch_high /\ 2 * notch_high < input_file.sr
    /\ error = Err("ValueError", "butter")

\* The stem files that hold a filtered waveform.
CleanFiles == {"sitar_harmonic_clean.wav", "harmonic_clean.wav"}

\* C2: every filtered waveform that is written to a stem file, returned by
\* apply_hpss_with_eq or put in the report's signal list has finite samples only.
C2_FilteredIsFinite ==
    /\ \A i \in DOMAIN written :
        written[i].name \in CleanFiles => AllFinite(written[i].audio)
    /\ pc = "eq_outputs" => AllFinite(harmonic_eq)
    /\ \A i \in DOMAIN signals_for_pdf : AllFinite(signals_for_pdf[i].audio)

\* C3: a failed neural run is reported as a missing tool exactly when the
\* executable could not be located; a nonzero exit is not reported as missing.
C3_DistinctFailures ==
    (prog = "app" /\ pc \in {"exit", "done"} /\ error.at = "run_demucs")
        => (NotFoundMessage \in Range(messages) <=> ~engine.present)

\* C4: once the engine has failed, no stem is offered, shown or listed and no
\* report is started, and the original mix and its visualization stay as they were.
C4_EngineFailureAborts ==
    (prog = "app" /\ error.at = "run_demucs")
        => /\ pc \in {"demucs_except", "exit", "done"}
           /\ signals_for_pdf = <<>> /\ offered = <<>> /\ written = <<>>
           /\ pdf_args = NoArgs /\ story = <<>> /\ pdf_bytes = <<>>
           /\ y_orig = input_file.audio /\ sr_orig = input_file.sr
           /\ shown = <<"Original Mix">>

\* C4 witness: a finished run whose engine exited nonzero after writing stems.
C4_Witness ==
    /\ prog = "app" /\ pc = "done" /\ error = Err("CalledProcessError", "run_demucs")
    /\ engine.layout = "flat" /\ engine.stems # {}

\* C5: after a successful engine run that left the nested layout, the signal
\* list holds, after the original mix, exactly one entry per stem file the
\* engine produced, labelled with the capitalized base name.
C5_AllStemsDiscovered ==
    (prog = "app" /\ method = DEMUCS /\ engine.present /\ engine.exit = 0
        /\ engine.layout = "nested" /\ pdf_bytes # <<>>)
        => /\ Len(signals_for_pdf) = 1 + Cardinality(engine.stems)
           /\ {signals_for_pdf[i].label : i \in 2..Len(signals_for_pdf)}
                = {capitalize(FileStem(f)) : f \in engine.stems}

PercussiveFiles == {"tabla_like.wav", "tabla_percussive.wav", "percussive.wav"}
RawHarmonicFiles == {"sitar_like.wav", "sitar_harmonic.wav", "harmonic.wav"}
PercussiveLabels == {"Tabla - Percussive"}
RawHarmonicLabels == {"Sitar - Harmonic", "Sitar - Harmonic (raw HPSS)"}

\* C6: the filter is applied at most once per run, to the harmonic part the
\* decomposition returned, and in HPSS-only and neural runs not at all; every
\* percussive stem written or listed is the decomposition's percussive part, every
\* raw harmonic stem its harmonic part, and the cleaned stem is the filter's
\* output on the harmonic part (sanitized or not).
C6_OnlyHarmonicFiltered ==
    /\ Len(filtered) <= 1
    /\ \A i \in DOMAIN filtered : filtered[i].input = hpss_out.harmonic
    /\ (prog = "app" /\ method # HPSS_EQ)
        => filtered = <<>> /\ "lfilter" \notin Range(steps)
    /\ \A i \in DOMAIN written :
        /\ written[i].name \in PercussiveFiles => written[i].audio = hpss_out.percussive
        /\ written[i].name \in RawHarmonicFiles => written[i].audio = hpss_out.harmonic
        /\ written[i].name \in CleanFiles =>
            \E o \in lfilter(hpss_out.harmonic) : written[i].audio \in {o, nan_to_num(o)}
    /\ \A i \in DOMAIN signals_for_pdf :
        /\ signals_for_pdf[i].label \in PercussiveLabels
            => signals_for_pdf[i].audio = hpss_out.percussive
        /\ signals_for_pdf[i].label \in RawHarmonicLabels
            => signals_for_pdf[i].audio = hpss_out.harmonic

\* C6 witness: a reported HPSS+Filter run whose filter changed the harmonic part
\* and whose percussive part is neither silent nor equal to the harmonic part.
C6_Witness ==
    /\ prog = "app" /\ method = HPSS_EQ /\ pdf_bytes # <<>>
    /\ harmonic_eq # harmonic /\ percussive # harmonic /\ Peak(percussive) > 0
    /\ \E i \in DOMAIN written : written[i].name = "tabla_percussive.wav"

\* The report's content elements, without spacers, rules and section headings.
IsContent(e) == e.kind \notin {"Spacer", "HRFlowable", "SectionHead"}
Keys(q) == [i \in 1..Len(q) |-> <<q[i].kind, q[i].sig, q[i].text>>]
IsPrefix(p, q) == Len(p) <= Len(q) /\ SubSeq(q, 1, Len(p)) = p

RECURSIVE ExpectedSections(_, _)
ExpectedSections(sigs, i) ==
    IF i > Len(sigs) THEN <<>>
    ELSE <<<<"SignalHead", i, sigs[i].label>>,
           <<"StatsTable", i, "">>,
           <<"Image", i, "Waveform">>,
           <<"Image", i, "Frequency Spectrum">>,
           <<"Image", i, "Spectrogram">>>>
         \o ExpectedSections(sigs, i + 1)

ExpectedContent(a) ==
    <<<<"Title", 0, "Sitar-Tabla Separation Report">>,
      <<"Subtitle", 0, a.method_label>>,
      <<"MethodNote", 0, a.method_note.text>>>>
    \o (IF a.notch_params.given THEN <<<<"EQTable", 0, "">>>> ELSE <<>>)
    \o ExpectedSections(a.signals, 1)
    \o <<<<"Footer", 0, "Generated by Sitar-Tabla Separator Tool">>>>

\* C7: at every point of build_pdf the content appended so far is a prefix of
\* title and metadata, method note, filter table if parameters were given, then
\* per signal in list order its heading, stats table, waveform, 0-5 kHz spectrum
\* and spectrogram, then the footer; the finished report is that whole sequence.
C7_ReportOrder ==
    /\ story # <<>> => IsPrefix(Keys(SelectSeq(story, IsContent)), ExpectedContent(pdf_args))
    /\ pdf_bytes # <<>> => Keys(SelectSeq(pdf_bytes, IsContent)) = ExpectedContent(pdf_args)

\* C7 witness: a finished report of at least two signals with a filter table.
C7_Witness ==
    /\ pdf_bytes # <<>> /\ Len(pdf_args.signals) >= 2 /\ pdf_args.notch_params.given

Tables(q) == {e \in Range(q) : e.kind = "EQTable"}

\* C8: a report built by a run of the app holds the filter-parameter table
\* exactly when the run filtered; in an HPSS+Filter run it is the one table of
\* the cutoffs handed to the filter, in the other runs there is none.
C8_FilterTableIffFiltered ==
    (prog = "app" /\ pdf_bytes # <<>>)
        => /\ Tables(pdf_bytes) # {} <=> "lfilter" \in Range(steps)
           /\ method = HPSS_EQ =>
                /\ Len(filtered) = 1
                /\ Tables(pdf_bytes) =
                      {El("EQTable", 0, "", <<filtered[1].low, filtered[1].high>>)}
           /\ method # HPSS_EQ => Tables(pdf_bytes) = {}

\* C8 witness: a reported HPSS+Filter run with cutoffs other than the defaults.
C8_Witness ==
    /\ prog = "app" /\ method = HPSS_EQ /\ pdf_bytes # <<>>
    /\ notch_low = NotchDefaultHigh /\ notch_high = NotchMax

IsSignalHead(e) == e.kind = "SignalHead"
IsStatsTable(e) == e.kind = "StatsTable"
Texts(q) == [i \in 1..Len(q) |-> q[i].text]
Names(q) == [i \in 1..Len(q) |-> q[i].name]
StatsOf(audio, rate) == <<Len(audio), rate, SumSq(audio), Len(audio), Peak(audio)>>

\* C9: in a report built by a run of the app the first section is the original
\* mix and the others are the run's stems in the order they were written (HPSS,
\* HPSS+Filter) or discovered (neural), which is the order they were shown in;
\* no label occurs twice.
C9_SectionOrder ==
    (prog = "app" /\ pdf_bytes # <<>>)
        => LET labels == Texts(SelectSeq(pdf_bytes, IsSignalHead))
               tables == SelectSeq(pdf_bytes, IsStatsTable)
           IN  /\ labels # <<>> /\ labels[1] = "Original Mix"
               /\ Len(tables) = Len(labels)
               /\ tables[1].data = StatsOf(input_file.audio, input_file.sr)
               /\ labels = shown
               /\ \A i, j \in DOMAIN labels : i # j => labels[i] # labels[j]
               /\ method = HPSS =>
                    /\ labels = <<"Original Mix", "Sitar - Harmonic", "Tabla - Percussive">>
                    /\ Names(written) = <<"sitar_like.wav", "tabla_like.wav">>
                    /\ \A i \in 1..2 :
                        tables[i + 1].data = StatsOf(written[i].audio, written[i].sr)
               /\ method = HPSS_EQ =>
                    /\ labels = <<"Original Mix", "Sitar - Harmonic (raw HPSS)",
                                  "Sitar - Harmonic (EQ cleaned)", "Tabla - Percussive">>
                    /\ Names(written) = <<"sitar_harmonic.wav", "sitar_harmonic_clean.wav",
                                          "tabla_percussive.wav">>
                    /\ \A i \in 1..3 :
                        tables[i + 1].data = StatsOf(written[i].audio, written[i].sr)
               /\ method = DEMUCS =>
                    LET stems == SelectSeq(offered, IsWav)
                    IN  /\ Len(stems) = Len(labels) - 1
                        /\ \A i \in 2..Len(labels) :
                            labels[i] = capitalize(FileStem(stems[i - 1]))

\* C9 witness: a neural report with at least two discovered stems.
C9_Witness ==
    /\ prog = "app" /\ method = DEMUCS /\ pdf_bytes # <<>> /\ Len(shown) >= 3

\* C10: statistics of a zero-length signal are an error and no triple; no stats
\* table of a report, started or finished, is for a zero-length signal, and a
\* build_pdf call whose list holds one ends in that error without a report.
C10_EmptySignalFails ==
    /\ \A i \in DOMAIN story :
        story[i].kind = "StatsTable"
            => /\ Len(pdf_args.signals[story[i].sig].audio) > 0
               /\ story[i].data # <<>> /\ story[i].data[1] > 0
    /\ (\E i \in DOMAIN pdf_args.signals : Len(pdf_args.signals[i].audio) = 0)
        => /\ pdf_bytes = <<>>
           /\ pc = "done" => error = Err("ValueError", "signal_stats")

\* C10 witness: build_pdf failed on an empty second signal after a first section.
C10_Witness ==
    /\ pc = "done" /\ error = Err("ValueError", "signal_stats") /\ sig_i = 2
    /\ \E i \in DOMAIN story : story[i].kind = "StatsTable"

\* The decomposition has been called on y.
Decomposed == "hpss" \in Range(steps)

\* C11: whenever the decomposition has been called on an empty or a
\* multi-channel array it has failed: the run is in an error raised by the
\* decomposition, no part has been written and none reaches a later step.
C11_InvalidInputRejected ==
    (Decomposed /\ (Len(y) = 0 \/ y_channels > 1))
        => /\ error = Err("ValueError", "hpss")
           /\ written = <<>> /\ filtered = <<>>

\* C12: in an HPSS or HPSS+Filter run (app or sep.py) on a mix of L samples at
\* rate R, the harmonic and percussive parts, the filtered harmonic part before
\* and after sanitization, every stem written and every signal listed for the
\* report have exactly L samples and rate R.
C12_LengthAndRatePreserved ==
    LET L == Len(input_file.audio)
        R == input_file.sr
    IN  (prog \in {"app", "script"} /\ method \in {HPSS, HPSS_EQ})
        => /\ \A i \in DOMAIN written :
                Len(written[i].audio) = L /\ written[i].sr = R
           /\ (Decomposed /\ error.at # "hpss")
                => Len(harmonic) = L /\ Len(percussive) = L /\ sr = R
           /\ "lfilter" \in Range(steps) => Len(harmonic_eq) = L
           /\ \A i \in DOMAIN signals_for_pdf :
                Len(signals_for_pdf[i].audio) = L /\ signals_for_pdf[i].sr = R

\* C12 witness: an HPSS+Filter run of the app wrote its three stems for a mix of
\* two or more samples, the cleaned one after sanitization replaced a sample.
C12_Witness ==
    /\ prog = "app" /\ method = HPSS_EQ /\ Len(input_file.audio) >= 2
    /\ Len(written) = 3 /\ "nan_to_num" \in Range(steps)
    /\ \E i \in DOMAIN harmonic_eq : harmonic_eq[i] = Zero /\ harmonic[i] # Zero

\* C13: in an HPSS+Filter run of the app with invalid cutoffs no processing
\* step is ever executed: the recording is not loaded for decomposition, the
\* decomposition is not run and no filter design is attempted, up to and
\* including the moment the range error is raised.
C13_ValidatedBeforeProcessing ==
    (prog = "app" /\ method = HPSS_EQ
        /\ InvalidRange(notch_low, notch_high, input_file.sr))
        => /\ steps = <<>>
           /\ hpss_out = NoHpss
           /\ filtered = <<>>

\* C14: no run of the app ends with its temporary directory present: when the
\* run is over (normally, by an exception of any step, or by the stop after an
\* engine failure) the directory, the upload, the stems and the engine output
\* in it are gone; and while the directory exists the run is not stuck, a next
\* step is always possible, so the release is reached.
C14_TmpdirReleased ==
    /\ pc = "done" => ~tmpdir
    /\ (prog = "app" /\ pc = "done") => files = NoFiles /\ tree = {}
    /\ tmpdir => (pc # "done" /\ ENABLED Next)

\* C14 witness: a run stopped after the engine failed, having left files in its
\* output directory, is over and the directory is gone.
C14_Witness ==
    /\ prog = "app" /\ pc = "done" /\ ~tmpdir /\ files = NoFiles /\ tree = {}
    /\ NotFoundMessage \in Range(messages)
    /\ engine.present /\ engine.stems # {}

=============================================================================
